---- MODULE Spec2Model ----
(***************************************************************************)
(* Model of src/src/auto_gpt_plugin_template/__init__.py:                  *)
(* the AutoGPTPluginTemplate hook contract and the DiscordPlugin adapter.  *)
(*                                                                         *)
(* The adapter's coroutines (connect, run, on_response) suspend at their   *)
(* awaits; the chat client's side of each await (login, gateway, send) is  *)
(* an action of its own, so the interleavings an event loop can produce    *)
(* are the behaviours of the model.                                        *)
(***************************************************************************)
EXTENDS Integers, Sequences, FiniteSets, TLC

\* Number of connect() calls (directly or through run()) in one behaviour.
MaxConnects == 2

\* Python's None, kept apart from every bot index and channel identifier.
None == -1

\* Channel identifiers of the guild the bot token belongs to.
GuildChannels == {42}

\* channel_id values the host passes: None, a falsy id, a channel, a stranger.
ChannelIds == {None, 0, 42, 99}

Responses == {"hi", ""}

EmptyMap == [k \in {} |-> 0]

\* **kwargs of on_response: with or without the channel_id key.
KwargsSet == {EmptyMap} \cup {[channel_id |-> c] : c \in ChannelIds}

CommandNames == {"hello", "Hello", "say_hello", "anything_else"}

ArgumentMaps == {EmptyMap, [x |-> 1]}

VARIABLES
    _name, _version, _description,  \* plugin identity
    _bot,          \* None or the index in bots of the current commands.Bot
    bots,          \* the commands.Bot objects created so far (client side)
    conn,          \* the connect()/run() coroutines started so far
    hook           \* the host's current (or last) hook call

vars == <<_name, _version, _description, _bot, bots, conn, hook>>

identity == <<_name, _version, _description>>

----------------------------------------------------------------------------
\* Construction

\* AutoGPTPluginTemplate.__init__
TemplateInit ==
    [name |-> "Auto-GPT-Plugin-Template",
     version |-> "0.1.0",
     description |-> "This is a template for Auto-GPT plugins."]

\* DiscordPlugin.__init__: the identity after super().__init__() and the
\* three assignments that follow it.
DiscordInit ==
    [TemplateInit EXCEPT
        !.name = "Auto-GPT Discord Plugin",
        !.version = "0.1.0",
        !.description = "This plugin enables Auto-GPT to communicate over Discord"]

IdleHook ==
    [kind |-> "none", fn |-> "none", pc |-> "idle", nargs |-> 0,
     response |-> "", kwargs |-> EmptyMap, channel |-> None,
     cmd |-> "", arguments |-> EmptyMap,
     sent |-> FALSE, result |-> "none"]

Init ==
    /\ _name = DiscordInit.name
    /\ _version = DiscordInit.version
    /\ _description = DiscordInit.description
    /\ _bot = None
    /\ bots = <<>>
    /\ conn = <<>>
    /\ hook = IdleHook

----------------------------------------------------------------------------
\* The session, as the adapter's state shows it

\* Disconnected: no handle.  Connected: the handle's client is ready (what
\* run() waits for).  Closed: the handle's connection has ended.
\* Connecting: a handle exists, its connection is not established.
SessionOf(b, bs) ==
    IF b = None THEN "Disconnected"
    ELSE IF bs[b].state = "ready" THEN "Connected"
    ELSE IF bs[b].state = "closed" THEN "Closed"
    ELSE "Connecting"

Session == SessionOf(_bot, bots)

----------------------------------------------------------------------------
\* connect() and run(), and the chat client's side of their awaits

\* commands.Bot(command_prefix=...): a client that is neither logged in nor
\* connected, with an empty channel cache and no registered command.
NewBot == [state |-> "created", cache |-> {}, commands |-> {}]

\* A coroutine that has ended, by return or by exception, holds nothing.
Finished(how) == [pc |-> how, bot |-> None, caller |-> "done"]

ConnIds == 1..Len(conn)

BotIds == 1..Len(bots)

\* bot.connect() as the client answers it for a bot in state s:
\* "start" opens the gateway of a logged-in client, "raise" fails the call,
\* "join" leaves the caller waiting on a connection that another call owns
\* (the client library does not define a second connect() on one client).
connect_outcomes(s) ==
    CASE s = "logged_in" -> {"start"}
      [] s = "created" -> {"raise"}
      [] OTHER -> {"raise", "join"}

\* Line 260: a new client replaces the handle; the coroutine then suspends
\* in `await self._bot.login(...)`.  caller is "connect" for a direct call
\* and "run" for the call at the first line of run().
ConnectReinitialises(caller) ==
    /\ Len(bots) < MaxConnects
    /\ bots' = Append(bots, NewBot)
    /\ _bot' = Len(bots) + 1
    /\ conn' = Append(conn, [pc |-> "login", bot |-> Len(bots) + 1,
                             caller |-> caller])
    /\ _name' = TemplateInit.name
    /\ _version' = TemplateInit.version
    /\ _description' = TemplateInit.description
    /\ UNCHANGED hook

Connect(caller) ==
    /\ Len(bots) < MaxConnects
    /\ bots' = Append(bots, NewBot)
    /\ _bot' = Len(bots) + 1
    /\ conn' = Append(conn, [pc |-> "login", bot |-> Len(bots) + 1,
                             caller |-> caller])
    /\ UNCHANGED <<identity, hook>>

\* Line 261 completes and line 262 runs: login succeeded on the client this
\* coroutine created, and connect() is called on whatever self._bot is now.
LoginOk(i) ==
    /\ conn[i].pc = "login"
    /\ LET logged == [bots EXCEPT ![conn[i].bot].state = "logged_in"]
           t == _bot
       IN \E o \in connect_outcomes(logged[t].state) :
            /\ bots' = IF o = "start"
                       THEN [logged EXCEPT ![t].state = "gateway"]
                       ELSE logged
            /\ conn' = [conn EXCEPT ![i] =
                           IF o = "raise" THEN Finished("raised")
                           ELSE [@ EXCEPT !.pc = "connect", !.bot = t]]
    /\ UNCHANGED <<identity, _bot, hook>>

\* Line 261 raises (bad token, network): connect() and a calling run() end
\* with the exception; the handle assigned at line 260 stays.
LoginFails(i) ==
    /\ conn[i].pc = "login"
    /\ conn' = [conn EXCEPT ![i] = Finished("raised")]
    /\ UNCHANGED <<identity, _bot, bots, hook>>

\* During bot.connect(): the gateway streams the guild's channels into the
\* client's cache, before and after the client reports ready.
GuildCreate(b, ch) ==
    /\ bots[b].state \in {"gateway", "ready"}
    /\ ch \notin bots[b].cache
    /\ bots' = [bots EXCEPT ![b].cache = @ \cup {ch}]
    /\ UNCHANGED <<identity, _bot, conn, hook>>

\* During bot.connect(): the client becomes ready (wait_until_ready returns).
Ready(b) ==
    /\ bots[b].state = "gateway"
    /\ bots' = [bots EXCEPT ![b].state = "ready"]
    /\ UNCHANGED <<identity, _bot, conn, hook>>

\* The connection ends; bot.connect() is about to return.  The cache stays.
ConnectionClosed(b) ==
    /\ bots[b].state \in {"gateway", "ready"}
    /\ bots' = [bots EXCEPT ![b].state = "closed"]
    /\ UNCHANGED <<identity, _bot, conn, hook>>

\* Line 262 completes.  A direct connect() returns; run() goes on to lines
\* 289-290: add_command on the current handle (the client rejects a command
\* name it already has), then it suspends in wait_until_ready().
ConnectReturns(i) ==
    /\ conn[i].pc = "connect"
    /\ bots[conn[i].bot].state = "closed"
    /\ IF conn[i].caller = "connect"
       THEN /\ conn' = [conn EXCEPT ![i] = Finished("returned")]
            /\ UNCHANGED bots
       ELSE IF "say_hello" \in bots[_bot].commands
       THEN /\ conn' = [conn EXCEPT ![i] = Finished("raised")]
            /\ UNCHANGED bots
       ELSE /\ conn' = [conn EXCEPT ![i].pc = "wait_until_ready",
                                    ![i].bot = _bot]
            /\ bots' = [bots EXCEPT ![_bot].commands = @ \cup {"say_hello"}]
    /\ UNCHANGED <<identity, _bot, hook>>

\* Line 290 completes: the client run() waits on is ready.
RunReturns(i) ==
    /\ conn[i].pc = "wait_until_ready"
    /\ bots[conn[i].bot].state = "ready"
    /\ conn' = [conn EXCEPT ![i] = Finished("returned")]
    /\ UNCHANGED <<identity, _bot, bots, hook>>

----------------------------------------------------------------------------
\* on_response

\* Python truthiness of a channel_id: None and 0 are false.
Truthy(v) == v # None /\ v # 0

\* kwargs.get("channel_id")
kwargs_get(kwargs) ==
    IF "channel_id" \in DOMAIN kwargs THEN kwargs["channel_id"] ELSE None

\* bot.get_channel(id): the cached channel, or None.
get_channel(bot, channel_id) ==
    IF channel_id \in bot.cache THEN channel_id ELSE None

on_response_unchecked_channel(b, bs, kwargs) ==
    IF b # None
    THEN LET channel_id == kwargs_get(kwargs)
         IN IF Truthy(channel_id)
            THEN LET channel == get_channel(bs[b], channel_id)
                 IN [channel |-> channel, send |-> channel # None,
                     raises |-> channel = None]
            ELSE [channel |-> None, send |-> FALSE, raises |-> FALSE]
    ELSE [channel |-> None, send |-> FALSE, raises |-> FALSE]

\* Lines 265-270 up to the await: the channel looked up (None when no lookup
\* was made or it found nothing), whether channel.send(response) is issued,
\* and whether the body raises before it reaches line 271.
on_response_body(b, bs, kwargs) ==
    IF b # None
    THEN LET channel_id == kwargs_get(kwargs)
         IN IF Truthy(channel_id)
            THEN LET channel == get_channel(bs[b], channel_id)
                 IN [channel |-> channel, send |-> channel # None,
                     raises |-> FALSE]
            ELSE [channel |-> None, send |-> FALSE, raises |-> FALSE]
    ELSE [channel |-> None, send |-> FALSE, raises |-> FALSE]

\* Hooks are invoked by the host one at a time: it makes a call when it
\* has taken the outcome of the previous one.
HostFree == hook.pc = "idle"

\* The host takes the value a hook returned, or the exception it raised, and
\* goes on with its pipeline.
HostContinues ==
    /\ hook.pc \in {"returned", "raised"}
    /\ hook' = IdleHook
    /\ UNCHANGED <<identity, _bot, bots, conn>>

\* The host calls on_response(response, **kwargs): the body runs to the
\* await of line 270, or to the return of line 271 when nothing is sent.
OnResponse(response, kwargs) ==
    /\ HostFree
    /\ LET r == on_response_body(_bot, bots, kwargs)
       IN hook' = [IdleHook EXCEPT
                      !.kind = "handler", !.fn = "on_response",
                      !.response = response, !.kwargs = kwargs,
                      !.channel = r.channel,
                      !.sent = r.send,
                      !.pc = IF r.raises THEN "raised"
                             ELSE IF r.send THEN "send" ELSE "returned",
                      !.result = IF r.raises \/ r.send THEN "none"
                                 ELSE response]
    /\ UNCHANGED <<identity, _bot, bots, conn>>

\* Line 270 completes, line 271 returns the response.
SendOk ==
    /\ hook.pc = "send"
    /\ hook' = [hook EXCEPT !.pc = "returned", !.result = hook.response]
    /\ UNCHANGED <<identity, _bot, bots, conn>>

\* Line 270 raises (HTTP error, missing permission, closed connection): no
\* handler surrounds the await, the exception leaves on_response.
SendError ==
    /\ hook.pc = "send"
    /\ hook' = [hook EXCEPT !.pc = "raised"]
    /\ UNCHANGED <<identity, _bot, bots, conn>>

----------------------------------------------------------------------------
\* pre_command

pre_command_keeps_arguments(command_name, arguments) ==
    IF command_name = "hello"
    THEN <<"say_hello", arguments>>
    ELSE <<command_name, arguments>>

pre_command(command_name, arguments) ==
    IF command_name = "hello"
    THEN <<"say_hello", EmptyMap>>
    ELSE <<command_name, arguments>>

PreCommand(command_name, arguments) ==
    /\ HostFree
    /\ hook' = [IdleHook EXCEPT
                   !.kind = "handler", !.fn = "pre_command",
                   !.cmd = command_name, !.arguments = arguments,
                   !.pc = "returned",
                   !.result = pre_command(command_name, arguments)]
    /\ UNCHANGED <<identity, _bot, bots, conn>>

----------------------------------------------------------------------------
\* Capability predicates

Points ==
    {"on_response", "post_prompt", "on_planning", "post_planning",
     "pre_instruction", "on_instruction", "post_instruction",
     "pre_command", "post_command", "chat_completion"}

\* Arguments (besides self) the contract's declaration of can_handle_<point>
\* takes, which is what a host written against the contract passes.
ContractArgs(point) == IF point = "chat_completion" THEN 4 ELSE 0

\* can_handle_<point> as DiscordPlugin resolves it: required positional
\* parameters besides self, whether *args/**kwargs follow, whether it is an
\* `async def`, and the value its body returns.  post_prompt and
\* post_command are not overridden and resolve to the template's bodies.
Predicate(point) ==
    CASE point = "on_response" ->
            [params |-> 0, varargs |-> FALSE, async |-> FALSE, ret |-> "True"]
      [] point = "pre_command" ->
            [params |-> 0, varargs |-> FALSE, async |-> FALSE, ret |-> "True"]
      [] point = "chat_completion" ->
            [params |-> 0, varargs |-> FALSE, async |-> FALSE, ret |-> "False"]
      [] point = "post_prompt" ->
            [params |-> 0, varargs |-> FALSE, async |-> FALSE, ret |-> "False"]
      [] point = "post_command" ->
            [params |-> 0, varargs |-> FALSE, async |-> FALSE, ret |-> "False"]
      [] point = "on_instruction" ->
            [params |-> 1, varargs |-> TRUE, async |-> TRUE, ret |-> "False"]
      [] point = "pre_instruction" ->
            [params |-> 1, varargs |-> TRUE, async |-> TRUE, ret |-> "False"]
      [] point = "post_instruction" ->
            [params |-> 2, varargs |-> TRUE, async |-> TRUE, ret |-> "False"]
      [] point = "on_planning" ->
            [params |-> 1, varargs |-> TRUE, async |-> TRUE, ret |-> "False"]
      [] point = "post_planning" ->
            [params |-> 2, varargs |-> TRUE, async |-> TRUE, ret |-> "False"]

\* A Python call of a method with nargs positional arguments: TypeError when
\* the arguments do not bind to the parameters; an un-awaited coroutine
\* object for an `async def`; the body's value otherwise.
call(sig, nargs) ==
    IF nargs < sig.params \/ (nargs > sig.params /\ ~sig.varargs)
    THEN "TypeError"
    ELSE IF sig.async THEN "coroutine"
    ELSE sig.ret

\* The host queries can_handle_<point> with the contract's arguments.
CanHandle(point) ==
    /\ HostFree
    /\ LET nargs == ContractArgs(point)
           r == call(Predicate(point), nargs)
       IN hook' = [IdleHook EXCEPT
                      !.kind = "predicate", !.fn = point, !.nargs = nargs,
                      !.pc = IF r = "TypeError" THEN "raised" ELSE "returned",
                      !.result = r]
    /\ UNCHANGED <<identity, _bot, bots, conn>>

----------------------------------------------------------------------------
\* Specifications

SendResolves == SendOk \/ SendError

Next ==
    \/ \E caller \in {"connect", "run"} : Connect(caller)
    \/ \E i \in ConnIds : LoginOk(i)
    \/ \E i \in ConnIds : LoginFails(i)
    \/ \E b \in BotIds, ch \in GuildChannels : GuildCreate(b, ch)
    \/ \E b \in BotIds : Ready(b)
    \/ \E b \in BotIds : ConnectionClosed(b)
    \/ \E i \in ConnIds : ConnectReturns(i)
    \/ \E i \in ConnIds : RunReturns(i)
    \/ \E response \in Responses, kwargs \in KwargsSet :
          OnResponse(response, kwargs)
    \/ SendOk
    \/ SendError
    \/ \E command_name \in CommandNames, arguments \in ArgumentMaps :
          PreCommand(command_name, arguments)
    \/ \E point \in Points : CanHandle(point)
    \/ HostContinues

Spec == Init /\ [][Next]_vars

\* The event loop resumes every coroutine that can run, and a send that was
\* issued is answered by the client, with a result or with an error.
FairSpec == Spec /\ WF_vars(Next) /\ WF_vars(SendResolves)

----------------------------------------------------------------------------
\* Properties

\* An on_response call that has been made: the step in which the host's
\* call runs the body of on_response up to its await or its return.
OnResponseCalled ==
    hook.pc = "idle" /\ hook'.kind = "handler" /\ hook'.fn = "on_response"

\* The host's current call is a call of the handler fn.
Handling(fn) == hook.kind = "handler" /\ hook.fn = fn

\* C1: every on_response call that has ended has ended by returning exactly
\* the response it was given, whether the send succeeded, was skipped or
\* failed inside the chat client.
C1_OnResponseReturnsResponse ==
    (Handling("on_response") /\ hook.pc # "send")
        => (hook.pc = "returned" /\ hook.result = hook.response)

\* C2: a send is issued only while the session is Connected; no on_response
\* call made while it is Disconnected or Connecting sends a message.
C2_SendOnlyWhileConnected ==
    [][(OnResponseCalled /\ hook'.sent) => Session = "Connected"]_vars

\* C3: pre_command maps "hello" (with any arguments) to ("say_hello", {}),
\* returns every other name with its arguments as given, and applied again
\* to the result for a non-trigger input gives that result again.
C3_PreCommandRewrite ==
    Handling("pre_command") =>
        /\ hook.pc = "returned"
        /\ hook.result =
              IF hook.cmd = "hello" THEN <<"say_hello", EmptyMap>>
              ELSE <<hook.cmd, hook.arguments>>
        /\ hook.cmd # "hello" =>
              pre_command(hook.result[1], hook.result[2]) = hook.result

C3_Witness ==
    /\ Handling("pre_command")
    /\ hook.cmd = "hello"
    /\ hook.arguments = [x |-> 1]
    /\ hook.result = <<"say_hello", EmptyMap>>

\* C5: queried with the contract's arguments, can_handle_on_response and
\* can_handle_pre_command answer true and every other predicate, also
\* can_handle_chat_completion(messages, model, temperature, max_tokens),
\* answers false.
C5_CapabilityAnswers ==
    hook.kind = "predicate" =>
        hook.result =
            IF hook.fn \in {"on_response", "pre_command"} THEN "True"
            ELSE "False"

\* C6: an on_response call that is waiting for its send eventually returns
\* to the host, also when the send fails.
C6_OnResponseEventuallyReturns ==
    (Handling("on_response") /\ hook.pc = "send")
        ~> (Handling("on_response") /\ hook.pc = "returned")

\* C7: an on_response call without a usable destination (no channel_id, a
\* channel_id of None, or a lookup that finds no channel) issues no send,
\* raises nothing and returns the response.
C7_NoDestinationNoSend ==
    (/\ Handling("on_response")
     /\ \/ ~Truthy(kwargs_get(hook.kwargs))
        \/ hook.channel = None)
        => (~hook.sent /\ hook.pc = "returned"
            /\ hook.result = hook.response)

\* An id that names no channel, looked up in a client whose cache is filled.
C7_Witness ==
    /\ Handling("on_response")
    /\ hook.kwargs = [channel_id |-> 99]
    /\ hook.response = "hi"
    /\ hook.pc = "returned"
    /\ _bot # None
    /\ bots[_bot].cache = GuildChannels

\* C8: an on_response call with a channel identifier, made before the
\* connection has succeeded, returns the response without raising and
\* delivers nothing.
C8_NoDeliveryBeforeConnected ==
    [][(/\ OnResponseCalled
        /\ Truthy(kwargs_get(hook'.kwargs))
        /\ Session \in {"Disconnected", "Connecting"})
          => (/\ ~hook'.sent
              /\ hook'.pc = "returned"
              /\ hook'.result = hook'.response)]_vars

\* C9: name, version and description have the values given at construction
\* in every reachable state.
C9_IdentityFixed ==
    /\ _name = "Auto-GPT Discord Plugin"
    /\ _version = "0.1.0"
    /\ _description = "This plugin enables Auto-GPT to communicate over Discord"

\* connect() and run() have both been called, run() has got as far as
\* wait_until_ready, and a response has been delivered.
C9_Witness ==
    /\ \E i \in ConnIds : conn[i].pc = "wait_until_ready"
    /\ \E i \in ConnIds : conn[i].caller = "connect"
    /\ Handling("on_response") /\ hook.sent /\ hook.pc = "returned"
    /\ C9_IdentityFixed

\* C10: the handle is written only by connect, the hooks leave it alone,
\* and the session never moves back: not from Connected to Connecting or
\* Disconnected, and not from Connecting to Disconnected.
C10_SessionOnlyForward ==
    [][/\ (_bot' # _bot => Len(conn') = Len(conn) + 1)
       /\ (hook' # hook => _bot' = _bot)
       /\ (Session = "Connected"
              => Session' \notin {"Connecting", "Disconnected"})
       /\ (Session # "Disconnected" => Session' # "Disconnected")]_vars

====
